---- MODULE Spec2Model ----
(***************************************************************************)
(* Fake Account Detector for X (Twitter): src/app.py.                      *)
(*                                                                         *)
(* The model covers one run of the Streamlit script: the handle check of   *)
(* the main interface, the resolver get_user_and_tweets with its two       *)
(* provider attempts, and the rule-by-rule scoring of compute_fake_score.  *)
(*                                                                         *)
(* Python values are represented as follows.  A str is a sequence of       *)
(* one-character strings, so that substring and regular-expression         *)
(* searches are computed position by position.  A value that may be None   *)
(* is None (the empty tuple) or Some(x) (a one-element tuple); a Python    *)
(* list that may be None is therefore None or Some(<<...>>), and the       *)
(* empty list Some(<<>>) differs from None.  A timestamp is a day number.  *)
(***************************************************************************)
EXTENDS Integers, Sequences, FiniteSets, TLC

VARIABLES
    pc,                 \* position of the script run
    username,           \* text of the st.text_input box
    go,                 \* value of the st.button
    calls,              \* provider attempts made so far, in order
    ui,                 \* st.error / st.warning / report elements emitted
    px,                 \* what try_x_api_user returned: None before the call
    sx,                 \* what try_snscrape_user returned: None before the call
    r2,                 \* how the posts request of try_x_api_user ended
    user,               \* get_user_and_tweets: user (None or Some(profile))
    tweets,             \* get_user_and_tweets: tweets (None or Some(list))
    source,             \* get_user_and_tweets: source (None or Some(label))
    score,              \* compute_fake_score: running tally
    reasons,            \* compute_fake_score: [good |-> list, bad |-> list]
    account_age_days,   \* compute_fake_score: None or Some(days)
    link_tweets,        \* compute_fake_score: None or Some(count)
    result              \* compute_fake_score: None or Some(clamped score)

appVars == <<username, go, calls, ui, px, sx, r2, user, tweets, source>>
scoreVars == <<score, reasons, account_age_days, link_tweets, result>>
vars == <<pc, appVars, scoreVars>>

None == <<>>
Some(x) == <<x>>
Get(o) == o[1]

\* Python truthiness of an optional str: None and "" are falsy.
Truthy(o) == o # None /\ Get(o) # <<>>

\* x or "" for an optional str
OrEmpty(o) == IF Truthy(o) THEN Get(o) ELSE <<>>

(***************************************************************************)
(* Bounds of the model.                                                    *)
(***************************************************************************)
MaxPosts == 20

(***************************************************************************)
(* Strings.                                                                *)
(***************************************************************************)
Rep(c, n) == [i \in 1..n |-> c]

\* pat occurs in text at position i
StartsAt(text, i, pat) ==
    /\ i + Len(pat) - 1 <= Len(text)
    /\ \A j \in 1..Len(pat) : text[i + j - 1] = pat[j]

\* Python: pat in text
Contains(text, pat) == \E i \in 1..(Len(text) + 1) : StartsAt(text, i, pat)

LowerChar(c) ==
    CASE c = "H" -> "h" [] c = "T" -> "t" [] c = "P" -> "p" [] c = "S" -> "s"
      [] c = "W" -> "w" [] c = "J" -> "j" [] OTHER -> c

Lower(text) == [i \in 1..Len(text) |-> LowerChar(text[i])]

\* re.search(r"http[s]?://|www\.", text) with the flags as written, that is
\* none, and in a variant with re.IGNORECASE.
re_search_link_ignorecase(text) ==
    \E i \in 1..Len(text) :
        \/ /\ StartsAt(Lower(text), i, <<"h", "t", "t", "p">>)
           /\ \/ StartsAt(Lower(text), i + 4, <<":", "/", "/">>)
              \/ /\ StartsAt(Lower(text), i + 4, <<"s">>)
                 /\ StartsAt(Lower(text), i + 5, <<":", "/", "/">>)
        \/ StartsAt(Lower(text), i, <<"w", "w", "w", ".">>)

re_search_link(text) ==
    \E i \in 1..Len(text) :
        \/ /\ StartsAt(text, i, <<"h", "t", "t", "p">>)
           /\ \/ StartsAt(text, i + 4, <<":", "/", "/">>)
              \/ /\ StartsAt(text, i + 4, <<"s">>)
                 /\ StartsAt(text, i + 5, <<":", "/", "/">>)
        \/ StartsAt(text, i, <<"w", "w", "w", ".">>)

default_profile ==
    <<"d", "e", "f", "a", "u", "l", "t", "_", "p", "r", "o", "f", "i", "l", "e">>

(***************************************************************************)
(* compute_fake_score(user, tweets).  The state of the function is the     *)
(* record st = [score, reasons]; each rule is an operator from st to the   *)
(* st after the rule.  A reason string is a record of its fixed text and   *)
(* the numbers formatted into it.                                          *)
(***************************************************************************)
Now == 20000

Reason(msg, args) == [msg |-> msg, args |-> args]

\* score += delta; reasons['bad'].append(r)
AppendBad(st, delta, r) ==
    [score |-> st.score + delta,
     reasons |-> [st.reasons EXCEPT !.bad = Append(@, r)]]

\* score += delta; reasons['good'].append(r)
AppendGood(st, delta, r) ==
    [score |-> st.score + delta,
     reasons |-> [st.reasons EXCEPT !.good = Append(@, r)]]

rule_followers(st, u) ==
    LET followers == u.public_metrics.followers_count
        following == u.public_metrics.following_count
    IN  IF followers < 50 /\ following > 300
        THEN AppendBad(st, 30,
                 Reason("Suspicious Follower Ratio: +30", <<followers, following>>))
        ELSE AppendGood(st, 0,
                 Reason("Account has a healthy follower/following ratio.", <<>>))

\* rule_bio writing its reason to both lists
rule_bio_both_lists(st, u) ==
    IF Len(OrEmpty(u.description)) > 10
    THEN AppendGood(st, 0, Reason("Profile has a descriptive bio.", <<>>))
    ELSE AppendGood(
             AppendBad(st, 20, Reason("Profile has no significant bio: +20", <<>>)),
             0, Reason("Profile has no significant bio: +20", <<>>))

rule_bio(st, u) ==
    IF Len(OrEmpty(u.description)) > 10
    THEN AppendGood(st, 0, Reason("Profile has a descriptive bio.", <<>>))
    ELSE AppendBad(st, 20, Reason("Profile has no significant bio: +20", <<>>))

rule_avatar(st, u) ==
    IF /\ Truthy(u.profile_image_url)
       /\ ~Contains(Get(u.profile_image_url), default_profile)
    THEN AppendGood(st, 0, Reason("Account has a custom profile picture.", <<>>))
    ELSE AppendBad(st, 20,
             Reason("Account is using a default profile picture: +20", <<>>))

\* rule_verified applying its delta without a reason
rule_verified_no_reason(st, u) ==
    IF u.verified
    THEN [score |-> st.score - 25, reasons |-> st.reasons]
    ELSE st

rule_verified(st, u) ==
    IF u.verified
    THEN AppendGood(st, -25, Reason("Account is verified by X: -25", <<>>))
    ELSE st

\* (datetime.now(tz) - dtparser.parse(user["created_at"])).days
age_days(u) == Now - u.created_at

\* rule_age with the first threshold inclusive
rule_age_inclusive(st, u) ==
    IF age_days(u) <= 30
    THEN AppendBad(st, 25, Reason("Account is very new: +25", <<age_days(u)>>))
    ELSE IF age_days(u) < 180
    THEN AppendBad(st, 15,
             Reason("Account is relatively new: +15", <<age_days(u)>>))
    ELSE AppendGood(st, 0,
             Reason("Account is well-established and has existed for a long time.",
                    <<>>))

rule_age(st, u) ==
    IF age_days(u) < 30
    THEN AppendBad(st, 25, Reason("Account is very new: +25", <<age_days(u)>>))
    ELSE IF age_days(u) < 180
    THEN AppendBad(st, 15,
             Reason("Account is relatively new: +15", <<age_days(u)>>))
    ELSE AppendGood(st, 0,
             Reason("Account is well-established and has existed for a long time.",
                    <<>>))

\* if tweets: if len(tweets) < 10: ...
rule_post_count(st, tw) ==
    IF tw # <<>> /\ Len(tw) < 10
    THEN AppendBad(st, 20,
             Reason("Account has very few recent tweets: +20", <<Len(tw)>>))
    ELSE st

\* sum(1 for t in tweets if re.search(r"http[s]?://|www\.", t.get("text", "")))
count_link_tweets(tw) ==
    Cardinality({i \in 1..Len(tw) : re_search_link(tw[i].text)})

\* link_ratio = (link_tweets / total_tweets) * 100, compared with a percentage
\* p.  For every total_tweets in 1..100 and p in {20, 50} the comparison of
\* the Python floats agrees with the comparison of the exact quotients.
ratio_gt(link, total, p) == link * 100 > p * total

\* the value formatted as {link_ratio:.0f} where it is not a tie
ratio_pct(link, total) == (link * 200 + total) \div (2 * total)

\* the link-ratio branches, reached also with no tweets
rule_links_unguarded(st, tw) ==
    LET link == count_link_tweets(tw)
        total == Len(tw)
    IN  IF total > 0 /\ ratio_gt(link, total, 50)
        THEN AppendBad(st, 20,
                 Reason("Very high link percentage in recent tweets: +20",
                        <<ratio_pct(link, total)>>))
        ELSE IF total > 0 /\ ratio_gt(link, total, 20)
        THEN AppendBad(st, 10,
                 Reason("High link percentage in recent tweets: +10",
                        <<ratio_pct(link, total)>>))
        ELSE AppendGood(st, 0,
                 Reason("Low percentage of tweets containing links.", <<>>))

\* if tweets: ... the link-ratio branches
rule_links(st, tw) ==
    IF tw = <<>> THEN st
    ELSE LET link == count_link_tweets(tw)
             total == Len(tw)
         IN  IF ratio_gt(link, total, 50)
             THEN AppendBad(st, 20,
                      Reason("Very high link percentage in recent tweets: +20",
                             <<ratio_pct(link, total)>>))
             ELSE IF ratio_gt(link, total, 20)
             THEN AppendBad(st, 10,
                      Reason("High link percentage in recent tweets: +10",
                             <<ratio_pct(link, total)>>))
             ELSE AppendGood(st, 0,
                      Reason("Low percentage of tweets containing links.", <<>>))

Max(a, b) == IF a > b THEN a ELSE b
Min(a, b) == IF a < b THEN a ELSE b

\* the clamp without its cap
clamp_score_no_cap(s) == Max(0, s)

\* max(0, min(100, score))
clamp_score(s) == Max(0, Min(100, s))

St == [score |-> score, reasons |-> reasons]

\* one rule of compute_fake_score, moving from position p to position q
ScoreStep(p, q, st) ==
    /\ pc = p
    /\ pc' = q
    /\ score' = st.score
    /\ reasons' = st.reasons
    /\ UNCHANGED <<appVars, result>>

ScoreFollowers ==
    /\ ScoreStep("rule1", "rule2", rule_followers(St, Get(user)))
    /\ UNCHANGED <<account_age_days, link_tweets>>

ScoreBio ==
    /\ ScoreStep("rule2", "rule3", rule_bio(St, Get(user)))
    /\ UNCHANGED <<account_age_days, link_tweets>>

ScoreAvatar ==
    /\ ScoreStep("rule3", "rule4", rule_avatar(St, Get(user)))
    /\ UNCHANGED <<account_age_days, link_tweets>>

ScoreVerified ==
    /\ ScoreStep("rule4", "rule5", rule_verified(St, Get(user)))
    /\ UNCHANGED <<account_age_days, link_tweets>>

ScoreAge ==
    /\ ScoreStep("rule5", "rule6", rule_age(St, Get(user)))
    /\ account_age_days' = Some(age_days(Get(user)))
    /\ UNCHANGED link_tweets

ScorePostCount ==
    /\ ScoreStep("rule6", "rule7", rule_post_count(St, Get(tweets)))
    /\ UNCHANGED <<account_age_days, link_tweets>>

ScoreLinks ==
    /\ ScoreStep("rule7", "return", rule_links(St, Get(tweets)))
    /\ link_tweets' = IF Get(tweets) = <<>> THEN link_tweets
                      ELSE Some(count_link_tweets(Get(tweets)))
    /\ UNCHANGED account_age_days

ScoreReturn ==
    /\ pc = "return"
    /\ pc' = "scored"
    /\ result' = Some(clamp_score(score))
    /\ UNCHANGED <<appVars, score, reasons, account_age_days, link_tweets>>

ScoreNext ==
    \/ ScoreFollowers
    \/ ScoreBio
    \/ ScoreAvatar
    \/ ScoreVerified
    \/ ScoreAge
    \/ ScorePostCount
    \/ ScoreLinks
    \/ ScoreReturn

(***************************************************************************)
(* Inputs of compute_fake_score.                                           *)
(***************************************************************************)
Chars_jack == <<"j", "a", "c", "k">>

FollowPairs == {10, 49, 50, 10000} \X {200, 300, 301}
Bios == {None, Some(<<>>), Some(Rep("b", 10)), Some(Rep("b", 28))}
DefaultAvatar == <<"/">> \o default_profile \o <<".", "p", "n", "g">>
CustomAvatar == <<"/", "m", "e", ".", "j", "p", "g">>
Avatars == {None, Some(<<>>), Some(DefaultAvatar), Some(CustomAvatar)}
Ages == {5, 29, 30, 179, 180, 1000}

Profile(name, fp, bio, avatar, verified, age) ==
    [username |-> name,
     description |-> bio,
     profile_image_url |-> avatar,
     verified |-> verified,
     created_at |-> Now - age,
     public_metrics |-> [followers_count |-> fp[1], following_count |-> fp[2]]]

Profiles ==
    {Profile(Chars_jack, fp, bio, avatar, verified, age) :
        fp \in FollowPairs, bio \in Bios, avatar \in Avatars,
        verified \in BOOLEAN, age \in Ages}

\* post texts: without a link, with a link as the pattern spells it, and with
\* the scheme or the prefix in upper or mixed case
PlainText == <<"h", "i", " ", "h", "t", "t", "p", " ", "w", "w", "w">>
LinkTexts ==
    << <<"s", "e", "e", " ", "h", "t", "t", "p", ":", "/", "/", "t", ".", "c", "o">>,
       <<"h", "t", "t", "p", "s", ":", "/", "/", "t", ".", "c", "o">>,
       <<"a", "t", " ", "w", "w", "w", ".", "x", ".", "c", "o", "m">> >>
UpperTexts ==
    << <<"H", "T", "T", "P", ":", "/", "/", "t", ".", "c", "o">>,
       <<"g", "o", " ", "W", "W", "W", ".", "x", ".", "c", "o", "m">>,
       <<"H", "t", "t", "p", "s", ":", "/", "/", "t", ".", "c", "o">> >>

Post(text) == [text |-> text]

\* n posts: k with a link, then u with an upper-case link, the rest plain
MkPosts(n, k, u) ==
    [i \in 1..n |->
        IF i <= k THEN Post(LinkTexts[((i - 1) % 3) + 1])
        ELSE IF i <= k + u THEN Post(UpperTexts[((i - k - 1) % 3) + 1])
        ELSE Post(PlainText)]

PostCounts == {0, 1, 5, 9, 10, 12, 20} \cup {MaxPosts}
LinkCounts == {0, 1, 2, 3, 5, 6, 7}
UpperCounts == {0, 2}

PostLists ==
    {MkPosts(s[1], s[2], s[3]) :
        s \in {t \in PostCounts \X LinkCounts \X UpperCounts :
                  t[2] + t[3] <= t[1]}}

\* compute_fake_score entered with user and tweets
ScoreInit ==
    /\ pc = "rule1"
    /\ username = Chars_jack
    /\ go = TRUE
    /\ calls = <<>>
    /\ ui = <<>>
    /\ px = None
    /\ sx = None
    /\ r2 = "none"
    /\ user \in {Some(p) : p \in Profiles}
    /\ tweets \in {Some(t) : t \in PostLists}
    /\ source = None
    /\ score = 0
    /\ reasons = [good |-> <<>>, bad |-> <<>>]
    /\ account_age_days = None
    /\ link_tweets = None
    /\ result = None

ScoreSpec == ScoreInit /\ [][ScoreNext]_vars

(***************************************************************************)
(* The handle check of the main interface.                                 *)
(***************************************************************************)
HandleMaxLen == 15

Whitespace == {" ", "\t", "\n", "\r"}

SetMin(S) == CHOOSE x \in S : \A y \in S : x <= y
SetMax(S) == CHOOSE x \in S : \A y \in S : x >= y

\* str.strip()
strip(s) ==
    LET keep == {i \in 1..Len(s) : s[i] \notin Whitespace}
    IN  IF keep = {} THEN <<>> ELSE SubSeq(s, SetMin(keep), SetMax(keep))

WordChars ==
    {"a", "b", "c", "d", "e", "f", "g", "h", "i", "j", "k", "l", "m",
     "n", "o", "p", "q", "r", "s", "t", "u", "v", "w", "x", "y", "z",
     "A", "B", "C", "D", "E", "F", "G", "H", "I", "J", "K", "L", "M",
     "N", "O", "P", "Q", "R", "S", "T", "U", "V", "W", "X", "Y", "Z",
     "0", "1", "2", "3", "4", "5", "6", "7", "8", "9", "_"}

\* [A-Za-z0-9_]{1,15} matching the whole of s
word_1_15(s) ==
    /\ Len(s) >= 1
    /\ Len(s) <= HandleMaxLen
    /\ \A i \in 1..Len(s) : s[i] \in WordChars

\* the same without the upper length bound
re_match_handle_unbounded(s) ==
    /\ Len(s) >= 1
    /\ \A i \in 1..Len(s) : s[i] \in WordChars

\* re.match(r"^[A-Za-z0-9_]{1,15}$", s): $ matches at the end of s and also
\* just before a newline that ends s
re_match_handle(s) ==
    \/ word_1_15(s)
    \/ /\ Len(s) >= 1
       /\ s[Len(s)] = "\n"
       /\ word_1_15(SubSeq(s, 1, Len(s) - 1))

Handles ==
    {<<>>,
     <<" ">>,
     <<" ", "\t">>,
     Chars_jack,
     <<" ">> \o Chars_jack \o <<" ", "\n">>,
     <<"j", "a", " ", "c", "k">>,
     <<"@">> \o Chars_jack,
     <<"b", "a", "d", "-", "1">>,
     <<"U", "_", "1">>,
     Rep("a", HandleMaxLen),
     Rep("a", HandleMaxLen + 1)}

(***************************************************************************)
(* get_user_and_tweets(username) and its two provider attempts.            *)
(***************************************************************************)
PrimaryLabel ==
    "AAAAAAAAAAAAAAAAAAAAAKns3wEAAAAAz5GPv7wRECqGOGcR4rfooc%2BTm1M%3DV1IiUiNtJJnyKhfC2P5qzJawtr1c93UMRnnxcoiszhwz8HmrbF"
SecondaryLabel == "snscrape"

\* what a provider attempt returns: the pair (user_data, tweets)
Pair(u, t) == [user |-> u, tweets |-> t]

\* return None, None
no_data_empty_list == Pair(None, Some(<<>>))
no_data == Pair(None, None)

\* if not user:
not_user_always(u) == TRUE
not_user(u) == u = None

\* try_x_api_user after the posts request: how the request ended decides
\* what the attempt returns (user_data is the profile already fetched, data
\* the "data" list of a 200 response)
x_api_keep_profile(user_data, outcome, data) ==
    IF outcome = "ok" THEN Pair(user_data, Some(data))
    ELSE Pair(user_data, Some(<<>>))

x_api_after_posts(user_data, outcome, data) ==
    CASE outcome = "ok" -> Pair(user_data, Some(data))
      [] outcome = "non200" -> Pair(user_data, Some(<<>>))
      [] outcome = "raised" -> no_data

\* x or 0 for an optional count
OrZero(o) == IF o = None THEN 0 ELSE Get(o)

\* the user_data and norm_tweets that try_snscrape_user builds from the
\* scraper's records
snscrape_user_data(user_line) ==
    [username |-> user_line.username,
     description |-> user_line.description,
     profile_image_url |-> user_line.profileImageUrl,
     verified |-> (user_line.verified = Some(TRUE)),
     created_at |-> user_line.created,
     public_metrics |->
        [followers_count |-> OrZero(user_line.followersCount),
         following_count |-> OrZero(user_line.friendsCount)]]

snscrape_norm_tweets(tweets_data) ==
    [i \in 1..Len(tweets_data) |-> [text |-> OrEmpty(tweets_data[i].rawContent)]]

\* what the providers can answer for a handle
AppProfiles(name) ==
    {Profile(name, fp, bio, avatar, verified, age) :
        fp \in {<<10, 301>>, <<10000, 200>>},
        bio \in {None, Some(Rep("b", 28))},
        avatar \in {Some(DefaultAvatar), Some(CustomAvatar)},
        verified \in BOOLEAN,
        age \in {5, 1000}}

AppPostLists == {MkPosts(0, 0, 0), MkPosts(5, 1, 2), MkPosts(12, 7, 0)}

UserLines(name) ==
    {[username |-> name,
      description |-> bio,
      profileImageUrl |-> avatar,
      verified |-> verified,
      created |-> Now - age,
      followersCount |-> followers,
      friendsCount |-> Some(301)] :
        bio \in {None, Some(Rep("b", 28))},
        avatar \in {None, Some(CustomAvatar)},
        verified \in {None, Some(TRUE)},
        age \in {5, 1000},
        followers \in {None, Some(10000)}}

RawTweets(t) ==
    [i \in 1..Len(t) |->
        [rawContent |-> IF t[i].text = PlainText THEN None ELSE Some(t[i].text)]]

TweetsData == {RawTweets(t) : t \in AppPostLists}

Init ==
    /\ pc = "idle"
    /\ username = <<>>
    /\ go = FALSE
    /\ calls = <<>>
    /\ ui = <<>>
    /\ px = None
    /\ sx = None
    /\ r2 = "none"
    /\ user = None
    /\ tweets = None
    /\ source = None
    /\ score = 0
    /\ reasons = [good |-> <<>>, bad |-> <<>>]
    /\ account_age_days = None
    /\ link_tweets = None
    /\ result = None

\* username = st.text_input(...); go = st.button("Analyze")
Submit(h, g) ==
    /\ pc = "idle"
    /\ username' = h
    /\ go' = g
    /\ pc' = "submitted"
    /\ UNCHANGED <<calls, ui, px, sx, r2, user, tweets, source, scoreVars>>

\* if go and username.strip(): is false
IgnoreSubmit ==
    /\ pc = "submitted"
    /\ ~(go /\ strip(username) # <<>>)
    /\ pc' = "done"
    /\ UNCHANGED <<appVars, scoreVars>>

\* if not re.match(...): st.error("Invalid Twitter Handle ...")
RejectHandle ==
    /\ pc = "submitted"
    /\ go /\ strip(username) # <<>>
    /\ ~re_match_handle(strip(username))
    /\ ui' = Append(ui, "error_invalid_handle")
    /\ pc' = "done"
    /\ UNCHANGED <<username, go, calls, px, sx, r2, user, tweets, source, scoreVars>>

\* else: get_user_and_tweets(username.strip()) is entered
AcceptHandle ==
    /\ pc = "submitted"
    /\ go /\ strip(username) # <<>>
    /\ re_match_handle(strip(username))
    /\ pc' = "try_x_api_user"
    /\ UNCHANGED <<appVars, scoreVars>>

\* try_x_api_user returns before the posts request: no X_BEARER, the profile
\* request raises or answers with a status other than 200
PrimaryFails(why) ==
    /\ pc = "try_x_api_user"
    /\ calls' = Append(calls, "try_x_api_user")
    /\ px' = Some(no_data)
    /\ pc' = "after_primary"
    /\ UNCHANGED <<username, go, ui, sx, r2, user, tweets, source, scoreVars>>

\* the profile request answers 200 without "data": return user_data, []
PrimaryNoProfile ==
    /\ pc = "try_x_api_user"
    /\ calls' = Append(calls, "try_x_api_user")
    /\ px' = Some(Pair(None, Some(<<>>)))
    /\ pc' = "after_primary"
    /\ UNCHANGED <<username, go, ui, sx, r2, user, tweets, source, scoreVars>>

\* the profile request answers 200 with "data": tweets = [], then the posts
\* request is made
PrimaryProfile(p) ==
    /\ pc = "try_x_api_user"
    /\ calls' = Append(calls, "try_x_api_user")
    /\ px' = Some(Pair(Some(p), Some(<<>>)))
    /\ pc' = "x_api_posts"
    /\ UNCHANGED <<username, go, ui, sx, r2, user, tweets, source, scoreVars>>

\* the posts request ends: 200 with the list data, another status, or an
\* exception
PrimaryPosts(outcome, data) ==
    /\ pc = "x_api_posts"
    /\ r2' = outcome
    /\ px' = Some(x_api_after_posts(Get(px).user, outcome, data))
    /\ pc' = "after_primary"
    /\ UNCHANGED <<username, go, calls, ui, sx, user, tweets, source, scoreVars>>

\* user, tweets = try_x_api_user(username); source = <label>; if not user:
\* st.warning(...) and the secondary attempt follows, else return
AfterPrimary ==
    /\ pc = "after_primary"
    /\ user' = Get(px).user
    /\ tweets' = Get(px).tweets
    /\ source' = Some(PrimaryLabel)
    /\ IF not_user(Get(px).user)
       THEN /\ ui' = Append(ui, "warning_fallback")
            /\ pc' = "try_snscrape_user"
       ELSE /\ ui' = ui
            /\ pc' = "returned"
    /\ UNCHANGED <<username, go, calls, px, sx, r2, scoreVars>>

\* user, tweets = try_snscrape_user(username); source = "snscrape"; return.
\* The attempt fails: the first subprocess times out, exits non-zero or
\* prints nothing, its first line is not JSON, or the second subprocess
\* times out
SecondaryFails(why) ==
    /\ pc = "try_snscrape_user"
    /\ calls' = Append(calls, "try_snscrape_user")
    /\ sx' = Some(no_data)
    /\ user' = no_data.user
    /\ tweets' = no_data.tweets
    /\ source' = Some(SecondaryLabel)
    /\ pc' = "returned"
    /\ UNCHANGED <<username, go, ui, px, r2, scoreVars>>

\* The attempt succeeds with the record user_line and the records
\* tweets_data (none when the second subprocess exits non-zero or prints
\* nothing)
SecondarySucceeds(user_line, tweets_data) ==
    /\ pc = "try_snscrape_user"
    /\ calls' = Append(calls, "try_snscrape_user")
    /\ sx' = Some(Pair(Some(snscrape_user_data(user_line)),
                       Some(snscrape_norm_tweets(tweets_data))))
    /\ user' = Some(snscrape_user_data(user_line))
    /\ tweets' = Some(snscrape_norm_tweets(tweets_data))
    /\ source' = Some(SecondaryLabel)
    /\ pc' = "returned"
    /\ UNCHANGED <<username, go, ui, px, r2, scoreVars>>

\* if not user: st.error("Could not fetch this handle ...")
NotFound ==
    /\ pc = "returned"
    /\ user = None
    /\ ui' = Append(ui, "error_not_found")
    /\ pc' = "done"
    /\ UNCHANGED <<username, go, calls, px, sx, r2, user, tweets, source, scoreVars>>

\* else: compute_fake_score(user, tweets) is entered
EnterScore ==
    /\ pc = "returned"
    /\ user # None
    /\ score' = 0
    /\ reasons' = [good |-> <<>>, bad |-> <<>>]
    /\ pc' = "rule1"
    /\ UNCHANGED <<appVars, account_age_days, link_tweets, result>>

\* the page and the PDF report are rendered from score, source and reasons
Render ==
    /\ pc = "scored"
    /\ ui' = Append(ui, "report")
    /\ pc' = "done"
    /\ UNCHANGED <<username, go, calls, px, sx, r2, user, tweets, source, scoreVars>>

Next ==
    \/ \E h \in Handles, g \in BOOLEAN : Submit(h, g)
    \/ IgnoreSubmit
    \/ RejectHandle
    \/ AcceptHandle
    \/ \E why \in {"no_token", "raised", "non200"} : PrimaryFails(why)
    \/ PrimaryNoProfile
    \/ \E p \in AppProfiles(strip(username)) : PrimaryProfile(p)
    \/ \E data \in AppPostLists : PrimaryPosts("ok", data)
    \/ \E outcome \in {"non200", "raised"} : PrimaryPosts(outcome, <<>>)
    \/ AfterPrimary
    \/ \E why \in {"raised", "exit_code", "no_output", "posts_raised"} :
           SecondaryFails(why)
    \/ \E ul \in UserLines(strip(username)), td \in TweetsData :
           SecondarySucceeds(ul, td)
    \/ NotFound
    \/ EnterScore
    \/ ScoreNext
    \/ Render

Spec == Init /\ [][Next]_vars

(***************************************************************************)
(* Properties of compute_fake_score, checked under ScoreSpec.              *)
(***************************************************************************)
Returned == result # None
U == Get(user)
Tw == Get(tweets)

Range(seq) == {seq[i] : i \in 1..Len(seq)}

\* the rule a reason string belongs to, and the delta it announces
RuleOf(r) ==
    CASE r.msg \in {"Suspicious Follower Ratio: +30",
                    "Account has a healthy follower/following ratio."} -> 1
      [] r.msg \in {"Profile has a descriptive bio.",
                    "Profile has no significant bio: +20"} -> 2
      [] r.msg \in {"Account has a custom profile picture.",
                    "Account is using a default profile picture: +20"} -> 3
      [] r.msg = "Account is verified by X: -25" -> 4
      [] r.msg \in {"Account is very new: +25",
                    "Account is relatively new: +15",
                    "Account is well-established and has existed for a long time."} -> 5
      [] r.msg = "Account has very few recent tweets: +20" -> 6
      [] r.msg \in {"Very high link percentage in recent tweets: +20",
                    "High link percentage in recent tweets: +10",
                    "Low percentage of tweets containing links."} -> 7

DeltaOf(r) ==
    CASE r.msg = "Suspicious Follower Ratio: +30" -> 30
      [] r.msg = "Profile has no significant bio: +20" -> 20
      [] r.msg = "Account is using a default profile picture: +20" -> 20
      [] r.msg = "Account is verified by X: -25" -> -25
      [] r.msg = "Account is very new: +25" -> 25
      [] r.msg = "Account is relatively new: +15" -> 15
      [] r.msg = "Account has very few recent tweets: +20" -> 20
      [] r.msg = "Very high link percentage in recent tweets: +20" -> 20
      [] r.msg = "High link percentage in recent tweets: +10" -> 10
      [] OTHER -> 0

RECURSIVE SumDeltas(_)
SumDeltas(seq) ==
    IF seq = <<>> THEN 0 ELSE DeltaOf(Head(seq)) + SumDeltas(Tail(seq))

\* how many entries of the two lists belong to rule k
Entries(k) ==
    Cardinality({i \in 1..Len(reasons.good) : RuleOf(reasons.good[i]) = k})
    + Cardinality({i \in 1..Len(reasons.bad) : RuleOf(reasons.bad[i]) = k})

\* the rule table, stated on the inputs
Absent(o) == o = None \/ Get(o) = <<>>
Age == Now - U.created_at
TableDelta1 ==
    IF U.public_metrics.followers_count < 50
       /\ U.public_metrics.following_count > 300 THEN 30 ELSE 0
TableDelta2 ==
    IF Absent(U.description) \/ Len(Get(U.description)) <= 10 THEN 20 ELSE 0
TableDelta3 ==
    IF Absent(U.profile_image_url)
       \/ Contains(Get(U.profile_image_url), default_profile) THEN 20 ELSE 0
TableDelta4 == IF U.verified THEN -25 ELSE 0
TableDelta5 == IF Age < 30 THEN 25 ELSE IF Age >= 30 /\ Age < 180 THEN 15 ELSE 0
TableDelta6 == IF Len(Tw) > 0 /\ Len(Tw) < 10 THEN 20 ELSE 0
TableDelta7 ==
    LET n == Len(Tw)
        k == count_link_tweets(Tw)
    IN  IF n = 0 THEN 0
        ELSE IF 100 * k > 50 * n THEN 20
        ELSE IF 100 * k > 20 * n /\ 100 * k <= 50 * n THEN 10
        ELSE 0
TableSum ==
    TableDelta1 + TableDelta2 + TableDelta3 + TableDelta4 + TableDelta5
    + TableDelta6 + TableDelta7
TableScore == IF TableSum < 0 THEN 0 ELSE IF TableSum > 100 THEN 100 ELSE TableSum

\* C1: whatever the profile and the post list, the score that
\* compute_fake_score returns is an integer between 0 and 100.
C1_ScoreInRange == Returned => Get(result) \in 0..100

\* a run whose tally exceeds 100 and is capped
C1_Witness == Returned /\ score > 100 /\ Get(result) = 100

\* C2 as claimed: the two lists are disjoint and every evaluated rule (1 to 5
\* always, 6 and 7 when the post list is non-empty) has exactly one entry.
C2_Original ==
    Returned =>
        /\ Range(reasons.good) \cap Range(reasons.bad) = {}
        /\ \A k \in 1..5 : Entries(k) = 1
        /\ Tw # <<>> => Entries(6) = 1 /\ Entries(7) = 1

\* C2 as amended: the two lists are disjoint; rules 1, 2, 3 and 5 have exactly
\* one entry each, rule 7 exactly one when the post list is non-empty and none
\* otherwise; rule 4 has one entry when the account is verified and none
\* otherwise, rule 6 one entry when there are 1 to 9 posts and none otherwise;
\* and the tally is the sum of the deltas of the entries, each applied once.
C2_RuleEntries ==
    Returned =>
        /\ Range(reasons.good) \cap Range(reasons.bad) = {}
        /\ \A k \in {1, 2, 3, 5} : Entries(k) = 1
        /\ Entries(4) = IF U.verified THEN 1 ELSE 0
        /\ Entries(6) = IF Tw # <<>> /\ Len(Tw) < 10 THEN 1 ELSE 0
        /\ Entries(7) = IF Tw # <<>> THEN 1 ELSE 0
        /\ score = SumDeltas(reasons.good) + SumDeltas(reasons.bad)

\* an unverified account with ten or more posts: rules 4 and 6 leave no entry
C2_Witness ==
    /\ Returned /\ ~U.verified /\ Len(Tw) >= 10
    /\ Entries(4) = 0 /\ Entries(6) = 0 /\ Entries(7) = 1

\* C5: the returned score is the sum of the rule-table deltas, clamped to
\* [0, 100].
C5_ScoreIsTable == Returned => Get(result) = TableScore

\* a verified account with posts, a link ratio in (20%, 50%] and a score
\* strictly inside the interval
C5_Witness ==
    /\ Returned /\ U.verified /\ TableDelta7 = 10 /\ TableDelta5 = 15
    /\ Get(result) > 0 /\ Get(result) < 100

\* C6: with an empty post list rules 6 and 7 leave no entry and no delta:
\* tally and lists are those of rules 1 to 5 alone.
C6_EmptyPostsSkipRules ==
    (Returned /\ Tw = <<>>) =>
        /\ \A r \in Range(reasons.good) \cup Range(reasons.bad) :
               RuleOf(r) \notin {6, 7}
        /\ link_tweets = None
        /\ St = rule_age(rule_verified(rule_avatar(rule_bio(rule_followers(
                    [score |-> 0, reasons |-> [good |-> <<>>, bad |-> <<>>]],
                    U), U), U), U), U)
        /\ Get(result) = clamp_score(score)

\* the first example of the specification: 95 from four bad entries, no posts
C6_Witness ==
    /\ Returned /\ Tw = <<>>
    /\ Get(result) = 95 /\ Len(reasons.bad) = 4 /\ reasons.good = <<>>

\* link detection with and without regard to case
LinkAnyCase(text) ==
    \/ Contains(Lower(text), <<"h", "t", "t", "p", ":", "/", "/">>)
    \/ Contains(Lower(text), <<"h", "t", "t", "p", "s", ":", "/", "/">>)
    \/ Contains(Lower(text), <<"w", "w", "w", ".">>)
LinkLowerCase(text) ==
    \/ Contains(text, <<"h", "t", "t", "p", ":", "/", "/">>)
    \/ Contains(text, <<"h", "t", "t", "p", "s", ":", "/", "/">>)
    \/ Contains(text, <<"w", "w", "w", ".">>)

\* C7: link detection is a case-insensitive substring search: a post is
\* counted as link-containing iff its text contains http://, https:// or www.
\* in any mix of upper and lower case.
C7_LinkAnyCase ==
    link_tweets # None =>
        Get(link_tweets) = Cardinality({i \in 1..Len(Tw) : LinkAnyCase(Tw[i].text)})

\* What the search of compute_fake_score counts instead: the posts whose text
\* contains one of the three patterns spelled in lower case.
LinkCountIsCaseSensitive ==
    link_tweets # None =>
        Get(link_tweets) = Cardinality({i \in 1..Len(Tw) : LinkLowerCase(Tw[i].text)})

\* the second example of the specification
C9_Example ==
    /\ Returned
    /\ U.public_metrics.followers_count = 10000
    /\ U.public_metrics.following_count = 200
    /\ U.description = Some(Rep("b", 28))
    /\ U.profile_image_url = Some(CustomAvatar)
    /\ U.verified
    /\ Age = 1000
    /\ Tw = MkPosts(20, 1, 0)

\* C9 as claimed: the example scores 0 and its good list has 5 entries.
C9_Original == C9_Example => Get(result) = 0 /\ Len(reasons.good) = 5

\* C9 as amended: the example scores 0 (the tally is -25, floored at 0), its
\* good list has 6 entries (rules 1, 2, 3, 4, 5 and 7) and its bad list none.
C9_ExampleScore ==
    C9_Example =>
        /\ Get(result) = 0
        /\ score = -25
        /\ Len(reasons.good) = 6
        /\ reasons.bad = <<>>

\* the example has been scored
C9_Witness == C9_Example /\ link_tweets = Some(1) /\ Get(result) = 0

(***************************************************************************)
(* Properties of the handle check and of the resolver, checked under Spec. *)
(***************************************************************************)
\* get_user_and_tweets has been called and has returned
ResolverReturned ==
    /\ calls # <<>>
    /\ pc \notin {"try_x_api_user", "x_api_posts", "after_primary",
                  "try_snscrape_user"}

PrimaryGaveProfile == px # None /\ Get(px).user # None
PrimaryGaveNone == px # None /\ Get(px).user = None
SecondaryGaveNone == sx # None /\ Get(sx).user = None

\* the handle grammar: 1 to 15 ASCII letters, digits and underscores
Grammar(h) ==
    /\ Len(h) \in 1..15
    /\ \A i \in 1..Len(h) : h[i] \in WordChars

\* C3: the secondary provider is attempted only after the primary attempt has
\* returned no profile; when the primary attempt returns a profile the
\* secondary is never attempted and the resolver returns the primary's
\* profile and posts with the primary's label, which differs from the
\* secondary's.
C3_PrimaryFirst ==
    /\ PrimaryLabel # SecondaryLabel
    /\ "try_snscrape_user" \in Range(calls) =>
           /\ calls = <<"try_x_api_user", "try_snscrape_user">>
           /\ PrimaryGaveNone
    /\ pc = "try_snscrape_user" => calls = <<"try_x_api_user">> /\ PrimaryGaveNone
    /\ (ResolverReturned /\ PrimaryGaveProfile) =>
           /\ calls = <<"try_x_api_user">>
           /\ sx = None
           /\ user = Get(px).user
           /\ tweets = Get(px).tweets
           /\ source = Some(PrimaryLabel)

\* the primary attempt gave a profile with posts and the run is over
C3_Witness ==
    /\ pc = "done" /\ PrimaryGaveProfile /\ r2 = "ok"
    /\ Get(tweets) # <<>> /\ source = Some(PrimaryLabel)

\* C4 as claimed: when both attempts yield no profile the resolver returns a
\* null profile, the empty post list and no source label.
C4_Original ==
    (ResolverReturned /\ PrimaryGaveNone /\ SecondaryGaveNone) =>
        /\ user = None
        /\ tweets = Some(<<>>)
        /\ source = None

\* C4 as amended: when both attempts yield no profile the resolver returns a
\* null profile, a null post list (not the empty list) and the secondary
\* provider's label; the caller reports not-found and scores nothing.
C4_BothFail ==
    (ResolverReturned /\ PrimaryGaveNone /\ SecondaryGaveNone) =>
        /\ user = None
        /\ tweets = None
        /\ source = Some(SecondaryLabel)
        /\ result = None
        /\ pc = "done" => ui = <<"warning_fallback", "error_not_found">>

\* both attempts failed and the run is over
C4_Witness ==
    /\ pc = "done" /\ PrimaryGaveNone /\ SecondaryGaveNone
    /\ calls = <<"try_x_api_user", "try_snscrape_user">>

\* C8 as claimed: every submitted handle that fails the grammar, the empty
\* and the whitespace-only handle included, gets a validation error and no
\* provider attempt.
C8_Original ==
    (pc = "done" /\ go /\ ~Grammar(username)) =>
        /\ "error_invalid_handle" \in Range(ui)
        /\ calls = <<>>

\* C8 as amended: a submitted handle whose stripped form is non-empty and
\* fails the grammar gets a validation error and no provider attempt; a
\* handle that is empty or only whitespace gets neither an error nor a
\* provider attempt; a provider is attempted only after the stripped handle
\* has passed the grammar check.
C8_HandleCheck ==
    /\ calls # <<>> => go /\ Grammar(strip(username))
    /\ pc \notin {"idle", "submitted", "done"} => go /\ Grammar(strip(username))
    /\ (pc = "done" /\ go /\ strip(username) # <<>> /\ ~Grammar(strip(username))) =>
           ui = <<"error_invalid_handle">> /\ calls = <<>>
    /\ (pc = "done" /\ go /\ strip(username) = <<>>) =>
           ui = <<>> /\ calls = <<>>

\* a handle of 16 letters has been rejected
C8_Witness ==
    /\ pc = "done" /\ go /\ Len(username) = 16
    /\ ui = <<"error_invalid_handle">> /\ calls = <<>>

\* C10: after a successful profile lookup, a posts request answered with a
\* status other than 200 leaves the primary attempt with the profile and an
\* empty post list (primary label, no secondary attempt); a posts request
\* that raises discards the profile, the primary attempt yields no data and
\* the resolver falls back to the secondary provider.
C10_PostsRequestFailure ==
    /\ pc = "x_api_posts" => PrimaryGaveProfile /\ r2 = "none"
    /\ r2 = "non200" =>
           /\ PrimaryGaveProfile
           /\ Get(px).tweets = Some(<<>>)
           /\ sx = None
           /\ calls = <<"try_x_api_user">>
           /\ ResolverReturned =>
                  /\ user = Get(px).user
                  /\ tweets = Some(<<>>)
                  /\ source = Some(PrimaryLabel)
    /\ r2 = "raised" =>
           /\ px = Some(Pair(None, None))
           /\ pc \notin {"after_primary", "try_snscrape_user"} =>
                  /\ calls = <<"try_x_api_user", "try_snscrape_user">>
                  /\ sx # None
                  /\ user = Get(sx).user
                  /\ tweets = Get(sx).tweets
                  /\ source = Some(SecondaryLabel)

\* the posts request raised and the secondary provider supplied the profile
C10_Witness ==
    /\ pc = "done" /\ r2 = "raised" /\ user # None
    /\ source = Some(SecondaryLabel) /\ result # None

====
